---- MODULE Spec2Model ----
(***************************************************************************)
(* Model of clip_retrieval/clip_inference/reader.py: the folder key        *)
(* resolver (folder_to_keys), the folder dataset (ImageDataset), the       *)
(* archive dataset (create_webdataset), the batch assembler (collate_fn)   *)
(* and the two readers (FilesReader, WebdatasetReader) iterating a         *)
(* DataLoader with num_prepro_workers workers.                             *)
(*                                                                         *)
(* A file name, a key and a value derived from a sample are sequences of   *)
(* character codes, so that sorted() is the code-point order of Python     *)
(* strings.  A Python dict is the sequence of its <<field, value>> pairs   *)
(* in insertion order.                                                     *)
(***************************************************************************)
EXTENDS Naturals, Sequences, FiniteSets

VARIABLES
    input_format,        \* "files" (FilesReader) or "webdataset" (WebdatasetReader)
    enable_text, enable_image, enable_metadata,
    input_sampler,       \* "identity" or "reverse"
    batch_size, num_prepro_workers,
    folder,              \* files mode: the files under the root folder
    corrupt,             \* files mode: the files whose open/read raises
    input_dataset,       \* webdataset mode: the shard locators, in the caller's order
    archive,             \* webdataset mode: locator -> the shard's entries, in stream order
    phase,               \* "new", "ready", "failed", "done", "raised"
    error,               \* the exception that escaped ("" when none)
    resolved,            \* the key list folder_to_keys returned
    keys, text_files, image_files, metadata_files,   \* ImageDataset's fields
    urls,                \* the shard list create_webdataset hands to wds.WebDataset
    results,             \* files mode: batch index -> what its fetch produced
    pos, outq, emitted, exhausted,   \* webdataset mode, per dataset replica
    decoded, excluded,   \* entries that reached preprocess_dataset / that the filter excluded
    turn,                \* webdataset mode: the replica whose batch is due next
    yielded              \* the batches handed to the consumer, in order

config == <<input_format, enable_text, enable_image, enable_metadata, input_sampler,
            batch_size, num_prepro_workers, folder, corrupt, input_dataset, archive>>
dataset == <<resolved, keys, text_files, image_files, metadata_files, urls>>
stream == <<pos, outq, emitted, exhausted, decoded, excluded, turn>>
vars == <<config, dataset, stream, phase, error, results, yielded>>

(***************************************************************************)
(* Bounds of the model.                                                    *)
(***************************************************************************)
MaxBatch == 2      \* batch_size is 1 or MaxBatch
MaxWorkers == 2    \* num_prepro_workers is 0 or MaxWorkers
MaxEntries == 2    \* a shard holds at most MaxEntries entries

(***************************************************************************)
(* Strings.                                                                *)
(***************************************************************************)
Dot == 46

\* "a.jpg", "B.PNG", "a.txt", "b.txt", "a.json"
FileNames ==
    { <<97, 46, 106, 112, 103>>, <<66, 46, 80, 78, 71>>,
      <<97, 46, 116, 120, 116>>, <<98, 46, 116, 120, 116>>,
      <<97, 46, 106, 115, 111, 110>> }

TxtSuffix == <<116, 120, 116>>
JsonSuffix == <<106, 115, 111, 110>>
\* the image globs: png, jpg, jpeg, bmp, webp, PNG, JPG, JPEG, BMP, WEBP
ImageSuffixes ==
    { <<112, 110, 103>>, <<106, 112, 103>>, <<106, 112, 101, 103>>,
      <<98, 109, 112>>, <<119, 101, 98, 112>>,
      <<80, 78, 71>>, <<74, 80, 71>>, <<74, 80, 69, 71>>,
      <<66, 77, 80>>, <<87, 69, 66, 80>> }

\* the suffix a glob "**/*.<suffix>" matches on: the text after the last dot
Suffix(f) ==
    LET d == CHOOSE i \in 1..Len(f) : f[i] = Dot /\ \A j \in (i+1)..Len(f) : f[j] # Dot
    IN  SubSeq(f, d + 1, Len(f))

\* Python's str order: code point by code point, a proper prefix first
LexLess(a, b) ==
    \E i \in 1..(Len(b)) :
        /\ \A j \in 1..(i-1) : j <= Len(a) /\ a[j] = b[j]
        /\ \/ i = Len(a) + 1
           \/ i <= Len(a) /\ a[i] < b[i]

RECURSIVE sorted(_)
sorted(S) ==
    IF S = {} THEN <<>>
    ELSE LET m == CHOOSE x \in S : \A y \in S : y = x \/ LexLess(x, y)
         IN  <<m>> \o sorted(S \ {m})

Reverse(s) == [i \in 1..Len(s) |-> s[Len(s) + 1 - i]]

SeqToSet(s) == {s[i] : i \in 1..Len(s)}

(***************************************************************************)
(* folder_to_keys                                                          *)
(***************************************************************************)
\* path.glob("**/*.txt") etc., each file mapped to relative_to(path).as_posix()
TextKeys(files) == {f \in files : Suffix(f) = TxtSuffix}
ImageKeys(files) == {f \in files : Suffix(f) \in ImageSuffixes}
MetadataKeys(files) == {f \in files : Suffix(f) = JsonSuffix}

\* keys is None or a set
NoKeys == [none |-> TRUE, set |-> {}]
SomeKeys(S) == [none |-> FALSE, set |-> S]

join(new_set, ks) == IF ~ks.none THEN SomeKeys(new_set \cap ks.set) ELSE SomeKeys(new_set)

\* lines 47-57: keys = None, then the if / elif / elif chain
JoinedKeys(files, et, ei, em) ==
    IF et THEN join(TextKeys(files), NoKeys)
    ELSE IF ei THEN join(ImageKeys(files), NoKeys)
    ELSE IF em THEN join(MetadataKeys(files), NoKeys)
    ELSE NoKeys

\* the returned tuple; sorted(None) raises TypeError
folder_to_keys(files, et, ei, em) ==
    LET ks == JoinedKeys(files, et, ei, em) IN
    [ exc |-> IF ks.none THEN "TypeError" ELSE "",
      keys |-> IF ks.none THEN <<>> ELSE sorted(ks.set),
      text_files |-> IF et THEN TextKeys(files) ELSE {},
      image_files |-> IF ei THEN ImageKeys(files) ELSE {},
      metadata_files |-> IF em THEN MetadataKeys(files) ELSE {} ]

\* a slip: the sampler's result is dropped
Sample_result_dropped(s, list) == list

\* the injected sampler
Sample(s, list) == IF s = "reverse" THEN Reverse(list) ELSE list

(***************************************************************************)
(* ImageDataset.__getitem__                                                *)
(***************************************************************************)
Raise(e) == [tag |-> "raise", exc |-> e, out |-> <<>>]
None == [tag |-> "None", exc |-> "", out |-> <<>>]
Record(o) == [tag |-> "Record", exc |-> "", out |-> o]

ImageFields(k) == << <<"image_filename", k>>, <<"image_tensor", k>> >>
TextFields(k) == << <<"text_tokens", k>>, <<"text", k>> >>
MetadataFields(k) == << <<"metadata", k>> >>

\* dataset[ind]: the image first (a failed open is caught and gives None), then
\* the text, then the metadata (read_text is outside any try)
getitem(ind) ==
    LET key == keys[ind] IN
    IF enable_image /\ key \notin image_files THEN Raise("KeyError")
    ELSE IF enable_image /\ key \in corrupt THEN None
    ELSE IF enable_text /\ key \notin text_files THEN Raise("KeyError")
    ELSE IF enable_text /\ key \in corrupt THEN Raise("OSError")
    ELSE IF enable_metadata /\ key \notin metadata_files THEN Raise("KeyError")
    ELSE IF enable_metadata /\ key \in corrupt THEN Raise("OSError")
    ELSE Record( (IF enable_image THEN ImageFields(key) ELSE <<>>)
                 \o (IF enable_text THEN TextFields(key) ELSE <<>>)
                 \o (IF enable_metadata THEN MetadataFields(key) ELSE <<>>) )

(***************************************************************************)
(* collate_fn and torch's default_collate                                  *)
(***************************************************************************)
Batch(cols) == [tag |-> "batch", exc |-> "", cols |-> cols]
BatchRaise(e) == [tag |-> "raise", exc |-> e, cols |-> <<>>]

\* elem = batch[0] raises IndexError on an empty list; a list of dicts gives
\* {key: collate([d[key] for d in batch]) for key in elem}
default_collate(batch) ==
    IF Len(batch) = 0 THEN BatchRaise("IndexError")
    ELSE Batch([j \in 1..Len(batch[1]) |->
                  <<batch[1][j][1], [i \in 1..Len(batch) |-> batch[i][j][2]]>>])

IsNotNone(x) == x.tag # "None"

collate_fn(batch) ==
    LET kept == SelectSeq(batch, IsNotNone)
    IN  default_collate([i \in 1..Len(kept) |-> kept[i].out])

(***************************************************************************)
(* DataLoader over the map-style ImageDataset (shuffle=False)              *)
(***************************************************************************)
Min(a, b) == IF a < b THEN a ELSE b

NumBatches == (Len(keys) + batch_size - 1) \div batch_size

\* the sequential batch sampler: batch b holds these indices
BatchIndices(b) == [i \in 1..(Min(b * batch_size, Len(keys)) - (b - 1) * batch_size)
                        |-> (b - 1) * batch_size + i]

\* the run of dataset[i] a fetch makes, cut at the first one that raises
RECURSIVE LoadRun(_)
LoadRun(idx) ==
    IF Len(idx) = 0 THEN <<>>
    ELSE LET r == getitem(idx[1]) IN
         IF r.tag = "raise" THEN <<r>> ELSE <<r>> \o LoadRun(Tail(idx))

Raised(run) == Len(run) > 0 /\ run[Len(run)].tag = "raise"

Pending == [state |-> "pending", run |-> <<>>, out |-> Batch(<<>>)]

\* fetcher.fetch(indices): [dataset[i] for i in indices], then collate_fn
fetch(b) ==
    LET run == LoadRun(BatchIndices(b)) IN
    [ state |-> "fetched", run |-> run,
      out |-> IF Raised(run) THEN BatchRaise(run[Len(run)].exc) ELSE collate_fn(run) ]

(***************************************************************************)
(* create_webdataset                                                       *)
(***************************************************************************)
image_key == "jpg"
caption_key == "txt"

AllFields == {"jpg", "txt", "json"}

\* what an archive entry can be: the fields it has, and those whose bytes do
\* not decode
FullEntry == [fields |-> AllFields, bad |-> {}]
OddEntries ==
    { [fields |-> AllFields, bad |-> {"jpg"}],
      [fields |-> {"jpg", "json"}, bad |-> {}],
      [fields |-> {"txt"}, bad |-> {}] }

\* the entry at position i of shard u; __key__ names it
Entry(u, i, kind) == [key |-> <<u, i>>, fields |-> kind.fields, bad |-> kind.bad]

\* a slip: the caption field is not asked for
filter_dataset_without_caption(item) ==
    IF enable_image /\ image_key \notin item.fields THEN FALSE
    ELSE IF enable_metadata /\ "json" \notin item.fields THEN FALSE
    ELSE TRUE

filter_dataset(item) ==
    IF enable_text /\ caption_key \notin item.fields THEN FALSE
    ELSE IF enable_image /\ image_key \notin item.fields THEN FALSE
    ELSE IF enable_metadata /\ "json" \notin item.fields THEN FALSE
    ELSE TRUE

\* item[field] raises KeyError when the field is missing; Image.open / decode
\* raise on bytes that do not decode
preprocess_dataset(item) ==
    IF enable_image /\ image_key \notin item.fields THEN Raise("KeyError")
    ELSE IF enable_image /\ image_key \in item.bad THEN Raise("UnidentifiedImageError")
    ELSE IF enable_text /\ caption_key \notin item.fields THEN Raise("KeyError")
    ELSE IF enable_text /\ caption_key \in item.bad THEN Raise("UnicodeDecodeError")
    ELSE IF enable_metadata /\ "json" \notin item.fields THEN Raise("KeyError")
    ELSE IF enable_metadata /\ "json" \in item.bad THEN Raise("UnicodeDecodeError")
    ELSE Record( (IF enable_image THEN ImageFields(item.key) ELSE <<>>)
                 \o (IF enable_text THEN TextFields(item.key) ELSE <<>>)
                 \o (IF enable_metadata THEN MetadataFields(item.key) ELSE <<>>) )

\* a slip: wds.handlers.warn_and_stop in its place
warn_and_stop(exn) == FALSE

\* wds.handlers.warn_and_continue: warn, and tell the stage to go on
warn_and_continue(exn) == TRUE

(***************************************************************************)
(* DataLoader over the iterable dataset: one replica of the dataset per    *)
(* worker process (the loading process itself when num_workers = 0), the   *)
(* shard list split between the replicas by wds.WebDataset.                *)
(***************************************************************************)
prefetch_factor == 2

Replicas == IF num_prepro_workers = 0 THEN {0} ELSE 0..(num_prepro_workers - 1)

NextReplica(w) == IF num_prepro_workers = 0 THEN 0 ELSE (w + 1) % num_prepro_workers

\* islice(urls, worker, None, num_workers)
RECURSIVE Slice(_, _, _)
Slice(list, from, step) ==
    IF from > Len(list) THEN <<>>
    ELSE <<list[from]>> \o Slice(list, from + step, step)

ReplicaShards(w) ==
    IF num_prepro_workers = 0 THEN urls ELSE Slice(urls, w + 1, num_prepro_workers)

RECURSIVE Chain(_)
Chain(shards) ==
    IF Len(shards) = 0 THEN <<>> ELSE archive[shards[1]] \o Chain(Tail(shards))

\* the entries replica w reads, in the order it reads them
ReplicaStream(w) == Chain(ReplicaShards(w))

(***************************************************************************)
(* The inputs a reader is constructed with.                                *)
(***************************************************************************)
\* the shard lists a reader is given: one locator, or two
ShardLists == { <<1>>, <<1, 2>> }

\* a shard of m entries: complete, decodable entries, at most one of them odd
ShardKinds(m) ==
    {[i \in 1..m |-> FullEntry]}
        \cup {[i \in 1..m |-> IF i = j THEN k ELSE FullEntry] : j \in 1..m, k \in OddEntries}

Shards(n) ==
    LET kinds == [1..n -> UNION {ShardKinds(m) : m \in 0..MaxEntries}]
    IN  {[u \in 1..n |-> [i \in 1..Len(k[u]) |-> Entry(u, i, k[u][i])]] : k \in kinds}

InitCommon ==
    /\ enable_text \in BOOLEAN
    /\ enable_image \in BOOLEAN
    /\ enable_metadata \in BOOLEAN
    /\ input_sampler \in {"identity", "reverse"}
    /\ batch_size \in {1, MaxBatch}
    /\ num_prepro_workers \in {0, MaxWorkers}
    /\ phase = "new"
    /\ error = ""
    /\ resolved = <<>>
    /\ keys = <<>>
    /\ text_files = {}
    /\ image_files = {}
    /\ metadata_files = {}
    /\ urls = <<>>
    /\ results = <<>>
    /\ pos = <<>>
    /\ outq = <<>>
    /\ emitted = <<>>
    /\ exhausted = <<>>
    /\ decoded = {}
    /\ excluded = {}
    /\ turn = 0
    /\ yielded = <<>>

InitFiles ==
    /\ input_format = "files"
    /\ folder \in SUBSET FileNames
    /\ corrupt \in SUBSET folder
    /\ input_dataset = <<>>
    /\ archive = <<>>
    /\ InitCommon

InitWebdataset ==
    /\ input_format = "webdataset"
    /\ folder = {}
    /\ corrupt = {}
    /\ input_dataset \in ShardLists
    /\ archive \in Shards(Len(input_dataset))
    /\ InitCommon

Init == InitFiles \/ InitWebdataset

(***************************************************************************)
(* Construction.                                                           *)
(***************************************************************************)
\* FilesReader.__init__: ImageDataset.__init__, then dataset_to_dataloader
FilesReaderInit ==
    /\ phase = "new"
    /\ input_format = "files"
    /\ LET r == folder_to_keys(folder, enable_text, enable_image, enable_metadata)
           ks == Sample(input_sampler, r.keys)
           keys_set == SeqToSet(ks)
       IN  IF r.exc # ""
           THEN /\ phase' = "failed"
                /\ error' = r.exc
                /\ UNCHANGED <<dataset, results>>
           ELSE /\ phase' = "ready"
                /\ error' = ""
                /\ resolved' = r.keys
                /\ keys' = ks
                /\ text_files' = IF enable_text THEN r.text_files \cap keys_set ELSE {}
                /\ image_files' = IF enable_image THEN r.image_files \cap keys_set ELSE {}
                /\ metadata_files' =
                       IF enable_metadata THEN r.metadata_files \cap keys_set ELSE {}
                /\ urls' = urls
                /\ results' =
                       [b \in 1..((Len(ks) + batch_size - 1) \div batch_size) |-> Pending]
    /\ UNCHANGED <<config, stream, yielded>>

\* WebdatasetReader.__init__: create_webdataset, then dataset_to_dataloader
WebdatasetReaderInit ==
    /\ phase = "new"
    /\ input_format = "webdataset"
    /\ phase' = "ready"
    /\ urls' = Sample(input_sampler, input_dataset)
    /\ pos' = [w \in Replicas |-> 0]
    /\ outq' = [w \in Replicas |-> <<>>]
    /\ emitted' = [w \in Replicas |-> <<>>]
    /\ exhausted' = [w \in Replicas |-> FALSE]
    /\ UNCHANGED <<config, resolved, keys, text_files, image_files, metadata_files,
                   decoded, excluded, turn, error, results, yielded>>

(***************************************************************************)
(* FilesReader.__iter__                                                    *)
(***************************************************************************)
Iterating(fmt) == phase = "ready" /\ input_format = fmt

\* what the consumer gets for a fetched batch: the batch, or its exception
Deliver(out) ==
    IF out.tag = "raise"
    THEN /\ phase' = "raised"
         /\ error' = out.exc
         /\ yielded' = yielded
    ELSE /\ phase' = phase
         /\ error' = error
         /\ yielded' = Append(yielded, out)

\* num_workers = 0: next(dataloader) fetches the next batch itself
NextSync ==
    /\ Iterating("files")
    /\ num_prepro_workers = 0
    /\ Len(yielded) < NumBatches
    /\ LET b == Len(yielded) + 1
           r == fetch(b)
       IN  /\ results' = [results EXCEPT ![b] = r]
           /\ Deliver(r.out)
    /\ UNCHANGED <<config, dataset, stream>>

\* num_workers > 0: batch b goes to worker (b - 1) % num_workers, which works
\* through its batches in order, at most prefetch_factor of them ahead
WorkerFetch(b) ==
    /\ Iterating("files")
    /\ num_prepro_workers > 0
    /\ results[b].state = "pending"
    /\ b <= Len(yielded) + prefetch_factor * num_prepro_workers
    /\ b > num_prepro_workers => results[b - num_prepro_workers].state = "fetched"
    /\ results' = [results EXCEPT ![b] = fetch(b)]
    /\ UNCHANGED <<config, dataset, stream, phase, error, yielded>>

\* num_workers > 0: next(dataloader) hands over the batch that is due, once
\* its worker has it
NextFromWorkers ==
    /\ Iterating("files")
    /\ num_prepro_workers > 0
    /\ Len(yielded) < NumBatches
    /\ results[Len(yielded) + 1].state = "fetched"
    /\ Deliver(results[Len(yielded) + 1].out)
    /\ UNCHANGED <<config, dataset, stream, results>>

\* the batch sampler is exhausted
FilesStop ==
    /\ Iterating("files")
    /\ Len(yielded) = NumBatches
    /\ phase' = "done"
    /\ UNCHANGED <<config, dataset, stream, error, results, yielded>>

(***************************************************************************)
(* WebdatasetReader.__iter__                                               *)
(***************************************************************************)
\* One fetch of the iterable-dataset fetcher: next(dataset_iter) up to
\* batch_size times.  Each entry goes through select(filter_dataset) and
\* map(preprocess_dataset, handler=warn_and_continue); an exception the
\* handler does not continue from ends the stream.
RECURSIVE Pull(_, _, _, _, _)
Pull(strm, p, got, dec, exc) ==
    IF Len(got) = batch_size
    THEN [pos |-> p, got |-> got, decoded |-> dec, excluded |-> exc, ended |-> FALSE]
    ELSE IF p = Len(strm)
    THEN [pos |-> p, got |-> got, decoded |-> dec, excluded |-> exc, ended |-> TRUE]
    ELSE LET item == strm[p + 1] IN
         IF ~filter_dataset(item)
         THEN Pull(strm, p + 1, got, dec, exc \cup {item.key})
         ELSE LET rec == preprocess_dataset(item) IN
              IF rec.tag = "raise"
              THEN IF warn_and_continue(rec.exc)
                   THEN Pull(strm, p + 1, got, dec \cup {item.key}, exc)
                   ELSE [pos |-> p + 1, got |-> got, decoded |-> dec \cup {item.key},
                         excluded |-> exc, ended |-> TRUE]
              ELSE Pull(strm, p + 1, Append(got, [key |-> item.key, out |-> rec.out]),
                        dec \cup {item.key}, exc)

\* the state a fetch of replica w leaves behind
Fetched(w, r) ==
    /\ pos' = [pos EXCEPT ![w] = r.pos]
    /\ emitted' = [emitted EXCEPT ![w] = @ \o [i \in 1..Len(r.got) |-> r.got[i].key]]
    /\ exhausted' = [exhausted EXCEPT ![w] = r.ended]
    /\ decoded' = decoded \cup r.decoded
    /\ excluded' = excluded \cup r.excluded

\* collate_fn=None: the DataLoader collates with default_collate
Collated(r) == default_collate([i \in 1..Len(r.got) |-> r.got[i].out])

\* num_workers = 0: next(dataloader) fetches the next batch itself
WebNextSync ==
    /\ Iterating("webdataset")
    /\ num_prepro_workers = 0
    /\ ~exhausted[0]
    /\ LET r == Pull(ReplicaStream(0), pos[0], <<>>, {}, {}) IN
       /\ Fetched(0, r)
       /\ IF Len(r.got) = 0
          THEN UNCHANGED <<phase, error, yielded>>
          ELSE Deliver(Collated(r))
    /\ UNCHANGED <<config, dataset, outq, turn, results>>

\* num_workers > 0: worker w fetches its next batch, at most prefetch_factor
\* of them ahead of the consumer
ReplicaFetch(w) ==
    /\ Iterating("webdataset")
    /\ num_prepro_workers > 0
    /\ ~exhausted[w]
    /\ Len(outq[w]) < prefetch_factor
    /\ LET r == Pull(ReplicaStream(w), pos[w], <<>>, {}, {}) IN
       /\ Fetched(w, r)
       /\ outq' = IF Len(r.got) = 0 THEN outq
                  ELSE [outq EXCEPT ![w] = Append(@, Collated(r))]
    /\ UNCHANGED <<config, dataset, turn, phase, error, results, yielded>>

\* num_workers > 0: next(dataloader) hands over the batch of the worker whose
\* turn it is
NextFromReplica ==
    /\ Iterating("webdataset")
    /\ num_prepro_workers > 0
    /\ Len(outq[turn]) > 0
    /\ Deliver(Head(outq[turn]))
    /\ outq' = [outq EXCEPT ![turn] = Tail(@)]
    /\ turn' = NextReplica(turn)
    /\ UNCHANGED <<config, dataset, pos, emitted, exhausted, decoded, excluded, results>>

\* a worker whose stream has ended is passed over
SkipReplica ==
    /\ Iterating("webdataset")
    /\ num_prepro_workers > 0
    /\ Len(outq[turn]) = 0
    /\ exhausted[turn]
    /\ \E w \in Replicas : ~exhausted[w] \/ Len(outq[w]) > 0
    /\ turn' = NextReplica(turn)
    /\ UNCHANGED <<config, dataset, pos, outq, emitted, exhausted, decoded, excluded,
                   phase, error, results, yielded>>

\* every stream has ended and nothing is left to hand over: StopIteration
WebdatasetStop ==
    /\ Iterating("webdataset")
    /\ \A w \in Replicas : exhausted[w] /\ Len(outq[w]) = 0
    /\ phase' = "done"
    /\ UNCHANGED <<config, dataset, stream, error, results, yielded>>

Next ==
    \/ FilesReaderInit
    \/ WebdatasetReaderInit
    \/ NextSync
    \/ \E b \in DOMAIN results : WorkerFetch(b)
    \/ NextFromWorkers
    \/ FilesStop
    \/ WebNextSync
    \/ \E w \in DOMAIN pos : ReplicaFetch(w)
    \/ NextFromReplica
    \/ SkipReplica
    \/ WebdatasetStop

Spec == Init /\ [][Next]_vars

(***************************************************************************)
(* Properties.                                                             *)
(***************************************************************************)
Constructed == phase \in {"ready", "done", "raised"}

Ascending(s) == \A i \in 1..(Len(s) - 1) : LexLess(s[i], s[i + 1])

IsPrefix(a, b) == Len(a) <= Len(b) /\ \A i \in 1..Len(a) : a[i] = b[i]

\* the key collections of the enabled modalities
EnabledKeySets ==
    (IF enable_text THEN {TextKeys(folder)} ELSE {})
        \cup (IF enable_image THEN {ImageKeys(folder)} ELSE {})
        \cup (IF enable_metadata THEN {MetadataKeys(folder)} ELSE {})

KeyIntersection == {f \in folder : \A S \in EnabledKeySets : f \in S}

\* C1: the key list folder_to_keys returns is the intersection of the key
\* collections of all enabled modalities, in lexicographically sorted order.
C1_KeysAreSortedIntersection ==
    (input_format = "files" /\ Constructed) =>
        /\ Ascending(resolved)
        /\ SeqToSet(resolved) = KeyIntersection

\* C2: every load(i) a fetch makes returns a Record or the Dropped sentinel;
\* no per-sample failure escapes as an exception.
C2_LoadNeverRaises ==
    \A b \in DOMAIN results :
        \A i \in 1..Len(results[b].run) : results[b].run[i].tag \in {"Record", "None"}

\* the batches next(dataloader) gives with num_workers = 0, up to the first
\* one that raises
RECURSIVE SyncFiles(_)
SyncFiles(b) ==
    IF b > NumBatches THEN <<>>
    ELSE LET o == fetch(b).out IN
         IF o.tag = "raise" THEN <<>> ELSE <<o>> \o SyncFiles(b + 1)

RECURSIVE SyncWebdataset(_)
SyncWebdataset(p) ==
    LET r == Pull(Chain(urls), p, <<>>, {}, {}) IN
    IF Len(r.got) = 0 THEN <<>>
    ELSE <<Collated(r)>> \o (IF r.ended THEN <<>> ELSE SyncWebdataset(r.pos))

SyncBatches == IF input_format = "files" THEN SyncFiles(1) ELSE SyncWebdataset(0)

\* C3: whatever the number of workers and the order they complete in, the
\* batches handed to the consumer are those of the run with num_workers = 0,
\* in the same order.
C3_WorkersDoNotChangeBatches ==
    Constructed =>
        /\ IsPrefix(yielded, SyncBatches)
        /\ phase = "done" => yielded = SyncBatches

NoneCount(run) == Len(run) - Len(SelectSeq(run, IsNotNone))

\* C4: collate_fn, given a run of N records of which K are None, produces a
\* batch with exactly N-K entries per present field, those of the surviving
\* records in their order.
C4_CollateKeepsSurvivors ==
    \A b \in DOMAIN results :
        (results[b].state = "fetched" /\ ~Raised(results[b].run)) =>
            LET run == results[b].run
                kept == SelectSeq(run, IsNotNone)
                out == results[b].out
            IN  /\ out.tag = "batch"
                /\ \A j \in DOMAIN out.cols :
                      /\ Len(out.cols[j][2]) = Len(run) - NoneCount(run)
                      /\ out.cols[j][2] = [i \in 1..Len(kept) |-> kept[i].out[j][2]]

\* C5: a batch whose records are all None is assembled into a batch in which
\* every field is absent, and no exception reaches the consumer.
C5_AllDroppedBatchIsEmpty ==
    \A b \in DOMAIN results :
        (/\ results[b].state = "fetched"
         /\ Len(results[b].run) > 0
         /\ NoneCount(results[b].run) = Len(results[b].run)) =>
            /\ results[b].out = Batch(<<>>)
            /\ error # "IndexError"

\* C6: a source with no modality enabled fails at construction, in folder
\* mode and in archive mode, and is never iterated.
C6_NoModalityFailsFast ==
    (~enable_text /\ ~enable_image /\ ~enable_metadata) => phase \in {"new", "failed"}

\* the fields the enabled modalities need
RequiredFields ==
    (IF enable_text THEN {caption_key} ELSE {})
        \cup (IF enable_image THEN {image_key} ELSE {})
        \cup (IF enable_metadata THEN {"json"} ELSE {})

HasRequired(item) == RequiredFields \subseteq item.fields

Decodes(item) == RequiredFields \cap item.bad = {}

Passes(item) == HasRequired(item) /\ Decodes(item)

EntryOf(k) == archive[k[1]][k[2]]

\* C7: an entry that lacks the field of an enabled modality is excluded and
\* never reaches preprocess_dataset; an entry that lacks only fields of
\* disabled modalities is not excluded.
C7_FilterBeforeDecode ==
    (input_format = "webdataset" /\ Constructed) =>
        \A w \in DOMAIN pos :
            \A i \in 1..Len(ReplicaStream(w)) :
                LET item == ReplicaStream(w)[i] IN
                IF i <= pos[w]
                THEN /\ item.key \in decoded <=> HasRequired(item)
                     /\ item.key \in excluded <=> ~HasRequired(item)
                ELSE item.key \notin decoded \cup excluded

C7_Witness ==
    /\ input_format = "webdataset"
    /\ enable_text
    /\ \E k \in excluded : caption_key \notin EntryOf(k).fields
    /\ \E k \in decoded : EntryOf(k).fields # AllFields

\* a sample of the folder gets into a batch unless its image fails to open
Survives(k) == ~(enable_image /\ k \in corrupt)

KeysOfBatch(j) == [i \in DOMAIN BatchIndices(j) |-> keys[BatchIndices(j)[i]]]

UrlIndex(u) == CHOOSE i \in 1..Len(urls) : urls[i] = u

\* entry a is read before entry b: an earlier shard of the sampled list, or an
\* earlier place in the same shard
ReadBefore(a, b) ==
    \/ UrlIndex(a[1]) < UrlIndex(b[1])
    \/ a[1] = b[1] /\ a[2] < b[2]

RECURSIVE FirstColumns(_)
FirstColumns(batches) ==
    IF Len(batches) = 0 THEN <<>>
    ELSE (IF Len(batches[1].cols) = 0 THEN <<>> ELSE batches[1].cols[1][2])
             \o FirstColumns(Tail(batches))

C9_OneBatchWhenBatchSizeExceedsKeys ==
    (/\ input_format = "files"
     /\ Constructed
     /\ Len(keys) >= 1
     /\ batch_size > Len(keys)) =>
        /\ phase # "raised"
        /\ phase = "done" =>
              /\ Len(yielded) = 1
              /\ \A c \in DOMAIN yielded[1].cols :
                    yielded[1].cols[c][2] = SelectSeq(keys, Survives)

KeysOf(items) == [i \in 1..Len(items) |-> items[i].key]

\* C10: the records create_webdataset's dataset yields are exactly the entries
\* of the stream that pass the filter and decode, in the stream's order; an
\* entry whose decode raises ends nothing and raises nothing.
C10_YieldsPassingEntriesInOrder ==
    (input_format = "webdataset" /\ Constructed) =>
        /\ phase # "raised"
        /\ \A w \in DOMAIN pos :
              /\ emitted[w] =
                     KeysOf(SelectSeq(SubSeq(ReplicaStream(w), 1, pos[w]), Passes))
              /\ exhausted[w] => pos[w] = Len(ReplicaStream(w))
        /\ phase = "done" =>
              \A w \in DOMAIN pos :
                  emitted[w] = KeysOf(SelectSeq(ReplicaStream(w), Passes))

C10_Witness ==
    /\ input_format = "webdataset"
    /\ Constructed
    /\ \E w \in DOMAIN pos : \E i, j \in 1..pos[w] :
          /\ i < j
          /\ HasRequired(ReplicaStream(w)[i])
          /\ ~Decodes(ReplicaStream(w)[i])
          /\ ReplicaStream(w)[j].key \in SeqToSet(emitted[w])

====
